---- MODULE Spec2Model ----
(***************************************************************************)
(* Hue2MQTT: the device model of hue.py (Bridge, Accessory and the eight   *)
(* Hue* helper classes).                                                   *)
(*                                                                         *)
(* Conventions                                                             *)
(*  - A JSON object is a TLA+ record / function with string keys; a        *)
(*    missing key is a key outside DOMAIN (Python raises KeyError).        *)
(*  - A Python float that is a quotient of two integers is kept as the     *)
(*    exact fraction [num, den]; int(x) truncates toward zero.             *)
(*  - A keyword argument or a patch entry is None or Some(v), so that an   *)
(*    entry that is present with the value None differs from an absent one.*)
(*  - A Python exception is the "err" field of an operation's result.      *)
(***************************************************************************)
EXTENDS Integers, Sequences, FiniteSets, TLC

\* ------------------------------------------------------------------ bounds
\* Largest value of the bridge's "lastupdated" clock of a sensor.
MaxTime == 2

\* Most MQTT messages that wait for client.loop() at a time.
MaxInbox == 1

\* The Kelvin values taken through the colour temperature conversions.
KelvinMin == 1990
KelvinMax == 6540

\* ------------------------------------------------------- program constants
BriMax == 254
Million == 1000000

\* ------------------------------------------------------------------ values
None == <<"none">>
Some(v) == <<"some", v>>
IsNone(o) == Len(o) = 1
Val(o) == o[2]

Frac(n, d) == [num |-> n, den |-> d]

\* Mutant of Trunc: the quotient rounded up.
TruncUp(n, d) == IF n >= 0 THEN (n + d - 1) \div d ELSE -((-n) \div d)

\* Python int(): truncation toward zero of the quotient n / d, d > 0.
Trunc(n, d) == IF n >= 0 THEN n \div d ELSE -((-n) \div d)

Has(obj, k) == k \in DOMAIN obj

\* The empty dict.
Empty == [k \in {} |-> None]

\* dict.update: the entries of d2 replace or extend those of d1.
DictUpdate(d1, d2) == d2 @@ d1

\* ---------------------------------------------------------------- handlers
all_handlers ==
  << "HueGeneric", "HueLight", "HueColorTemperature", "HueBatteryStatus",
     "HueDimmerSwitch", "HueLightSensor", "HuePresenceSensor",
     "HueTemperatureSensor" >>

SupportedTypes ==
  { "ZLLLightLevel", "ZLLPresence", "ZLLSwitch", "ZLLTemperature",
    "Color temperature light" }

\* The keys is_applicable reads without a guard: their absence is a KeyError.
ApplicableNeeds(h, data) ==
  CASE h = "HueGeneric" ->
         Has(data, "manufacturername")
         /\ (data.manufacturername = "Philips" => Has(data, "type"))
    [] h \in {"HueLight", "HueColorTemperature"} -> Has(data, "type")
    [] h = "HueBatteryStatus" ->
         Has(data, "manufacturername")
         /\ (data.manufacturername = "Philips" => Has(data, "config"))
    [] h = "HueTemperatureSensor" -> Has(data, "manufacturername")
    [] OTHER ->
         Has(data, "manufacturername")
         /\ (data.manufacturername = "Philips" => Has(data, "type"))

is_applicable(h, data) ==
  CASE h = "HueGeneric" ->
         data.manufacturername = "Philips" /\ data.type \in SupportedTypes
    [] h = "HueLight" -> data.type \in {"Color temperature light"}
    [] h = "HueColorTemperature" -> data.type \in {"Color temperature light"}
    [] h = "HueBatteryStatus" ->
         data.manufacturername = "Philips" /\ Has(data.config, "battery")
    [] h = "HueTemperatureSensor" ->
         data.manufacturername = "Philips"
         /\ Has(data, "state") /\ Has(data.state, "temperature")
    [] h = "HueLightSensor" ->
         data.manufacturername = "Philips" /\ data.type = "ZLLLightLevel"
    [] h = "HuePresenceSensor" ->
         data.manufacturername = "Philips" /\ data.type = "ZLLPresence"
    [] h = "HueDimmerSwitch" ->
         data.manufacturername = "Philips" /\ data.type = "ZLLSwitch"

\* Whether data has obj[k1][k2].
Has2(data, k1, k2) == Has(data, k1) /\ Has(data[k1], k2)

\* The keys handler h's get reads: a record lacking one raises KeyError.
GetNeeds(h, data) ==
  CASE h = "HueGeneric" ->
         /\ Has(data, "config")
         /\ (Has(data.config, "reachable") \/ Has2(data, "state", "reachable"))
         /\ Has(data, "manufacturername") /\ Has(data, "productname")
         /\ Has(data, "modelid") /\ Has(data, "name")
    [] h = "HueLight" ->
         Has2(data, "state", "on") /\ Has2(data, "state", "bri")
         /\ Has2(data, "state", "alert")
    [] h = "HueColorTemperature" ->
         /\ Has2(data, "capabilities", "control")
         /\ Has(data.capabilities.control, "ct")
         /\ Has(data.capabilities.control.ct, "min")
         /\ Has(data.capabilities.control.ct, "max")
         /\ Has2(data, "state", "ct")
    [] h = "HueBatteryStatus" -> Has2(data, "config", "battery")
    [] h = "HueTemperatureSensor" ->
         Has2(data, "state", "temperature") /\ Has2(data, "state", "lastupdated")
    [] h = "HueLightSensor" ->
         Has2(data, "state", "lightlevel") /\ Has2(data, "state", "dark")
         /\ Has2(data, "state", "daylight") /\ Has2(data, "state", "lastupdated")
    [] h = "HuePresenceSensor" ->
         Has2(data, "config", "sensitivitymax")
         /\ Has2(data, "state", "presence") /\ Has2(data, "state", "lastupdated")
    [] h = "HueDimmerSwitch" ->
         Has2(data, "state", "buttonevent") /\ Has2(data, "state", "lastupdated")

\* The dict handler h's get returns for a record that has the keys it reads.
HandlerGet(h, data) ==
  CASE h = "HueGeneric" ->
         [ reachable    |-> IF Has(data.config, "reachable")
                            THEN data.config.reachable
                            ELSE data.state.reachable,
           device_name  |-> <<data.manufacturername, " ", data.productname>>,
           device_model |-> data.modelid,
           name         |-> data.name ]
    [] h = "HueLight" ->
         [ on         |-> data.state.on,
           brightness |-> Frac(data.state.bri, BriMax),
           alert      |-> data.state.alert ]
    [] h = "HueColorTemperature" ->
         [ colortemp |-> Trunc(Million, data.state.ct) ]
    [] h = "HueBatteryStatus" ->
         [ battery |-> data.config.battery ]
    [] h = "HueTemperatureSensor" ->
         [ temperature |-> Frac(data.state.temperature, 100),
           lastupdated |-> data.state.lastupdated ]
    [] h = "HueLightSensor" ->
         [ lightlevel  |-> data.state.lightlevel,
           dark        |-> data.state.dark,
           daylight    |-> data.state.daylight,
           lastupdated |-> data.state.lastupdated ]
    [] h = "HuePresenceSensor" ->
         [ presence    |-> data.state.presence,
           lastupdated |-> data.state.lastupdated ]
    [] h = "HueDimmerSwitch" ->
         [ buttonevent |-> data.state.buttonevent,
           lastupdated |-> data.state.lastupdated ]

\* Whether data has data["capabilities"]["control"]["ct"][k].
HasCt(data, k) ==
  /\ Has2(data, "capabilities", "control")
  /\ Has(data.capabilities.control, "ct")
  /\ Has(data.capabilities.control.ct, k)

\* The instance attributes handler h's get assigns (the bounds it caches), in
\* statement order up to the first missing key; attrs holds the attributes of
\* the handler instances of one Accessory.
HandlerGetAttrs(h, data, attrs) ==
  CASE h = "HueColorTemperature" ->
         IF ~HasCt(data, "min") THEN attrs
         ELSE LET a1 == DictUpdate(attrs,
                          [ _ct_min |-> data.capabilities.control.ct.min ])
              IN  IF ~HasCt(data, "max") THEN a1
                  ELSE DictUpdate(a1,
                          [ _ct_max |-> data.capabilities.control.ct.max ])
    [] h = "HuePresenceSensor" ->
         IF ~Has2(data, "config", "sensitivitymax") THEN attrs
         ELSE DictUpdate(attrs,
                [ _sensitivity_max |-> data.config.sensitivitymax ])
    [] OTHER -> attrs

\* ------------------------------------------------------- Accessory.parse
\* Mutant of update_changed: a key counts only when d1 lacks it.
update_changed_new_keys(d1, d2) ==
  \E k \in DOMAIN d2 : ~Has(d1, k)

\* _update_changed: whether d2 has a key that d1 lacks or maps differently
\* (d1 itself becomes DictUpdate(d1, d2)).
update_changed(d1, d2) ==
  \E k \in DOMAIN d2 : ~Has(d1, k) \/ d1[k] # d2[k]

\* any(_update_changed(self.data, handler.get(data)) for handler in handlers):
\* the generator is consumed handler by handler and any() stops at the first
\* True; a KeyError of a get ends the call with what was assigned so far.
\* ParseFrom is the loop from the head of handlers on; ParseGet is the call of
\* the head's get, with a2 the attributes after it; ParseMerge is
\* _update_changed by its result d2.
RECURSIVE ParseFrom(_, _, _, _)
RECURSIVE ParseGet(_, _, _, _)
RECURSIVE ParseMerge(_, _, _, _, _)
\* Mutant of ParseMerge: a change is reported but not stored.
ParseMergeForgetting(handlers, d1, a2, data, d2) ==
  IF update_changed(d1, d2)
  THEN [data |-> d1, attrs |-> a2, changed |-> TRUE, err |-> "ok"]
  ELSE ParseFrom(Tail(handlers), DictUpdate(d1, d2), a2, data)

ParseMerge(handlers, d1, a2, data, d2) ==
  IF update_changed(d1, d2)
  THEN [data |-> DictUpdate(d1, d2), attrs |-> a2, changed |-> TRUE, err |-> "ok"]
  ELSE ParseFrom(Tail(handlers), DictUpdate(d1, d2), a2, data)

\* Mutant of ParseGet: a get that fails leaves the snapshot emptied.
ParseGetClearing(handlers, d1, a2, data) ==
  IF ~GetNeeds(Head(handlers), data)
  THEN [data |-> Empty, attrs |-> a2, changed |-> FALSE, err |-> "KeyError"]
  ELSE ParseMerge(handlers, d1, a2, data, HandlerGet(Head(handlers), data))

ParseGet(handlers, d1, a2, data) ==
  IF ~GetNeeds(Head(handlers), data)
  THEN [data |-> d1, attrs |-> a2, changed |-> FALSE, err |-> "KeyError"]
  ELSE ParseMerge(handlers, d1, a2, data, HandlerGet(Head(handlers), data))

ParseFrom(handlers, d1, attrs, data) ==
  IF handlers = <<>>
  THEN [data |-> d1, attrs |-> attrs, changed |-> FALSE, err |-> "ok"]
  ELSE ParseGet(handlers, d1, HandlerGetAttrs(Head(handlers), data, attrs), data)

\* The accessory after a parse of data that ended as r; acc.last and
\* acc.streak are history fields: the record of the accessory's most recent
\* completed parse, and the number of completed parses in a row, up to now,
\* that were given that record (counted up to the number of handlers).
Parsed(acc, data, r) ==
  [ acc     |-> [acc EXCEPT !.data = r.data, !.attrs = r.attrs,
                            !.last = IF r.err = "ok" THEN <<data>> ELSE @,
                            !.streak =
                              IF r.err # "ok" THEN 0
                              ELSE IF acc.last = <<data>> /\ @ > 0
                              THEN IF @ < Len(acc.handlers) THEN @ + 1 ELSE @
                              ELSE 1],
    changed |-> r.changed,
    err     |-> r.err ]

\* Accessory.parse(data) on accessory acc: the accessory afterwards, the
\* returned flag and the exception raised, if any.
parse(acc, data) ==
  Parsed(acc, data, ParseFrom(acc.handlers, acc.data, acc.attrs, data))

\* One parse call: acc is the accessory afterwards; rec is the record kept of
\* the call in ret.parses: the accessory's slot in Bridge.devices, the record
\* parsed, the accessory's handlers, the record of its previous parse and the
\* streak of it, its snapshot before and after, the handlers' attributes
\* after, and what the call returned or raised.
ParseOutcome(slot, acc, data, p) ==
  [ acc |-> p.acc,
    rec |-> [ slot |-> slot, data |-> data, handlers |-> acc.handlers,
              last |-> acc.last, streak |-> acc.streak,
              before |-> acc.data, after |-> p.acc.data,
              attrs |-> p.acc.attrs,
              changed |-> p.changed, err |-> p.err ] ]

ParseCall(slot, acc, data) == ParseOutcome(slot, acc, data, parse(acc, data))

\* --------------------------------------------------- Accessory.from_json
\* A new accessory, as built by cls(bridge, kind, index) and the assignments
\* of uid and handlers that follow it.
NewAccessory(kind, index, data) ==
  [ kind |-> kind, index |-> index, uid |-> data.uniqueid,
    handlers |-> SelectSeq(all_handlers, LAMBDA h : is_applicable(h, data)),
    data |-> Empty, attrs |-> Empty, last |-> <<>>, streak |-> 0 ]

\* The result of from_json whose obj.parse(data) call was c.
Constructed(c) ==
  [ err |-> c.rec.err, obj |-> IF c.rec.err = "ok" THEN <<c.acc>> ELSE <<>>,
    call |-> <<c.rec>> ]

\* Accessory.from_json(bridge, kind, index, data): obj is <<>> for None and
\* <<accessory>> otherwise; call is the record of the parse call it made.
from_json(kind, index, data, slot) ==
  IF ~Has(data, "uniqueid")
  THEN [err |-> "ok", obj |-> <<>>, call |-> <<>>]
  ELSE IF ~ApplicableNeeds("HueGeneric", data)
  THEN [err |-> "KeyError", obj |-> <<>>, call |-> <<>>]
  ELSE IF ~is_applicable("HueGeneric", data)
  THEN [err |-> "ok", obj |-> <<>>, call |-> <<>>]
  ELSE IF \E i \in 1..Len(all_handlers) : ~ApplicableNeeds(all_handlers[i], data)
  THEN [err |-> "KeyError", obj |-> <<>>, call |-> <<>>]
  ELSE Constructed(ParseCall(slot, NewAccessory(kind, index, data), data))

\* ----------------------------------------------------------- handler.set
\* A keyword argument of set(**kwargs): its default is None.
Kw(kwargs, k) == IF Has(kwargs, k) THEN kwargs[k] ELSE None

\* A dict that keeps insertion order is a sequence of <<key, value>> pairs
\* with distinct keys.
NoPatch == <<>>
Patch(block, entries) == << <<block, entries>> >>

\* Mutant of BriWire: round(brightness * 254), half up.
BriWireRounded(b) == (2 * b.num * BriMax + b.den) \div (2 * b.den)

\* int(brightness * 254) for the brightness b, a fraction.
BriWire(b) == Trunc(b.num * BriMax, b.den)

\* The keyword arguments the signature of handler h's set names.
SetParameters(h) ==
  CASE h = "HueGeneric" -> {"name"}
    [] h = "HueLight" -> {"on", "brightness", "alert"}
    [] h = "HueColorTemperature" -> {"colortemp"}
    [] h = "HueLightSensor" -> {"tholddark", "tholdoffset"}
    [] h = "HuePresenceSensor" -> {"sensitivity", "ledindication"}
    [] OTHER -> {}

\* handler.set(**kwargs) on a handler instance with attributes attrs: the
\* {block: {field: value}} dict it returns, or the exception it raises;
\* logged tells whether logger.error was called.
HandlerSet(h, kwargs, attrs) ==
  LET ok(p, l) == [err |-> "ok", patch |-> p, logged |-> l]
      raise(e) == [err |-> e, patch |-> NoPatch, logged |-> FALSE]
  IN
  CASE h = "HueGeneric" ->
         ok(Patch("", [name |-> Kw(kwargs, "name")]), FALSE)
    [] h = "HueLight" ->
         LET b == Kw(kwargs, "brightness")
         IN  IF IsNone(b) THEN raise("TypeError")
             ELSE ok(Patch("state",
                       [ on    |-> Kw(kwargs, "on"),
                         bri   |-> Some(BriWire(Val(b))),
                         alert |-> Kw(kwargs, "alert") ]),
                     Val(b).num < 0 \/ Val(b).num > Val(b).den)
    [] h = "HueColorTemperature" ->
         LET c == Kw(kwargs, "colortemp")
         IN  IF IsNone(c) THEN ok(Patch("state", Empty), FALSE)
             ELSE IF Val(c) = 0 THEN raise("ZeroDivisionError")
             ELSE LET mirad == Trunc(Million, Val(c))
                  IN  IF ~Has(attrs, "_ct_min") THEN raise("AttributeError")
                      ELSE IF mirad < attrs._ct_min
                      THEN ok(Patch("state", [ct |-> Some(mirad)]), TRUE)
                      ELSE IF ~Has(attrs, "_ct_max") THEN raise("AttributeError")
                      ELSE ok(Patch("state", [ct |-> Some(mirad)]),
                              mirad > attrs._ct_max)
    [] h = "HueLightSensor" ->
         ok(Patch("config", [ tholddark   |-> Kw(kwargs, "tholddark"),
                              tholdoffset |-> Kw(kwargs, "tholdoffset") ]), FALSE)
    [] h = "HuePresenceSensor" ->
         LET s == Kw(kwargs, "sensitivity")
             p == Patch("config", [ sensitivity   |-> s,
                                    ledindication |-> Kw(kwargs, "ledindication") ])
         IN  IF IsNone(s) THEN ok(p, FALSE)
             ELSE IF ~Has(attrs, "_sensitivity_max") THEN raise("AttributeError")
             ELSE ok(p, Val(s) > attrs._sensitivity_max)
    [] OTHER -> ok(NoPatch, FALSE)

\* --------------------------------------------------------- Accessory.set
OdHas(od, key) == \E i \in 1..Len(od) : od[i][1] = key

\* changes.setdefault(block, dict()); changes[block].update(block_changes)
MergeBlock(changes, block, block_changes) ==
  IF OdHas(changes, block)
  THEN [ i \in 1..Len(changes) |->
           IF changes[i][1] = block
           THEN <<block, DictUpdate(changes[i][2], block_changes)>>
           ELSE changes[i] ]
  ELSE Append(changes, <<block, DictUpdate(Empty, block_changes)>>)

\* The inner loop of set over one handler's this_change.items().
RECURSIVE MergePatch(_, _)
MergePatch(changes, this_change) ==
  IF this_change = <<>> THEN changes
  ELSE MergePatch(MergeBlock(changes, Head(this_change)[1], Head(this_change)[2]),
                  Tail(this_change))

\* The outer loop of set over the patches the handlers returned, in list order.
RECURSIVE MergeChanges(_, _)
MergeChanges(changes, patches) ==
  IF patches = <<>> THEN changes
  ELSE MergeChanges(MergePatch(changes, Head(patches)), Tail(patches))

\* Mutant of StripNone: the None entries are kept.
StripNothing(block_changes) == block_changes

\* { k: v for k, v in block_changes.items() if v is not None }
StripNone(block_changes) ==
  [ k \in { f \in DOMAIN block_changes : ~IsNone(block_changes[f]) } |->
      block_changes[k] ]

\* The PUT request of one block with its stripped dict, none when it is empty.
Request(kind, index, block, block_changes) ==
  IF Cardinality(DOMAIN block_changes) > 0
  THEN << [ method |-> "PUT", kind |-> kind, index |-> index,
            block |-> block, data |-> block_changes ] >>
  ELSE <<>>

\* The PUT requests of the second loop of set, one per block whose stripped
\* dict is not empty, in the order of the blocks' insertion.
RECURSIVE Requests(_, _, _)
Requests(kind, index, changes) ==
  IF changes = <<>> THEN <<>>
  ELSE Request(kind, index, Head(changes)[1], StripNone(Head(changes)[2]))
       \o Requests(kind, index, Tail(changes))

\* The handlers' set calls of Accessory.set, in list order up to the first
\* exception: SetCalls from the head of handlers on, SetNext after the head's
\* call returned r, SetJoin r before the result t of the calls after it.
RECURSIVE SetCalls(_, _, _)
SetJoin(r, t) ==
  [ err |-> t.err,
    patches |-> IF t.err = "ok" THEN <<r.patch>> \o t.patches ELSE <<>>,
    logged |-> r.logged \/ t.logged ]

SetNext(handlers, kwargs, attrs, r) ==
  IF r.err # "ok"
  THEN [err |-> r.err, patches |-> <<>>, logged |-> r.logged]
  ELSE SetJoin(r, SetCalls(Tail(handlers), kwargs, attrs))

SetCalls(handlers, kwargs, attrs) ==
  IF handlers = <<>> THEN [err |-> "ok", patches |-> <<>>, logged |-> FALSE]
  ELSE SetNext(handlers, kwargs, attrs, HandlerSet(Head(handlers), kwargs, attrs))

\* The requests of Accessory.set with a transport that fails at the fail-th
\* request (0: never): the last request sent is the one that failed.
Send(reqs, fail, logged) ==
  IF fail \in 1..Len(reqs)
  THEN [err |-> "URLError", requests |-> SubSeq(reqs, 1, fail), logged |-> logged]
  ELSE [err |-> "ok", requests |-> reqs, logged |-> logged]

\* Accessory.set after the handlers' set calls ended as c.
SetRequests(acc, c, fail) ==
  IF c.err # "ok"
  THEN [err |-> c.err, requests |-> <<>>, logged |-> c.logged]
  ELSE Send(Requests(acc.kind, acc.index, MergeChanges(<<>>, c.patches)),
            fail, c.logged)

\* Accessory.set(**kwargs).
AccessorySet(acc, kwargs, fail) ==
  SetRequests(acc, SetCalls(acc.handlers, kwargs, acc.attrs), fail)

\* ------------------------------------------------------------------ Bridge
\* Bridge.by_uid: the slot in Bridge.devices (a dict in insertion order, here
\* a sequence) of the first accessory with this uid, 0 for None.
by_uid(devices, uid) ==
  IF \E i \in 1..Len(devices) : devices[i].uid = uid
  THEN CHOOSE i \in 1..Len(devices) :
         /\ devices[i].uid = uid
         /\ \A j \in 1..(i - 1) : devices[j].uid # uid
  ELSE 0

\* The inner loop of Bridge.__init__ over the listing of one kind; entries is
\* the listing, a sequence of [index, data] in the order of the JSON object.
\* InitNext continues after from_json returned r for the head entry.
RECURSIVE InitLoop(_, _, _, _)
InitNext(entries, kind, devices, calls, r) ==
  IF r.err # "ok"
  THEN [err |-> r.err, devices |-> devices, calls |-> calls \o r.call]
  ELSE InitLoop(Tail(entries), kind, devices \o r.obj, calls \o r.call)

InitLoop(entries, kind, devices, calls) ==
  IF entries = <<>> THEN [err |-> "ok", devices |-> devices, calls |-> calls]
  ELSE InitNext(entries, kind, devices, calls,
                from_json(kind, Head(entries).index, Head(entries).data,
                          Len(devices) + 1))

\* Bridge.__init__: the listing of the sensors, then that of the lights.
InitLights(lst, s) ==
  IF s.err # "ok" THEN s
  ELSE InitLoop(lst.lights, "lights", s.devices, s.calls)

BridgeConstruct(lst) ==
  InitLights(lst, InitLoop(lst.sensors, "sensors", <<>>, <<>>))

\* The slot of the accessory a listed record belongs to, 0 when the record
\* has no uniqueid or no accessory has it.
SlotOf(devices, data) ==
  IF Has(data, "uniqueid") THEN by_uid(devices, data.uniqueid) ELSE 0

\* The loop of Bridge.update over the fetched listing; UpdateNext continues
\* after device.parse(data), recorded as c, for the head entry.
RECURSIVE UpdateLoop(_, _, _, _)
UpdateNext(entries, devices, changed, calls, c) ==
  IF c.rec.err # "ok"
  THEN [err |-> c.rec.err, devices |-> [devices EXCEPT ![c.rec.slot] = c.acc],
        changed |-> changed, calls |-> Append(calls, c.rec)]
  ELSE UpdateLoop(Tail(entries), [devices EXCEPT ![c.rec.slot] = c.acc],
                  IF c.rec.changed THEN Append(changed, c.rec.slot) ELSE changed,
                  Append(calls, c.rec))

\* Mutant of UpdateEntry: a listed record of no known accessory is taken on
\* as a new one.
UpdateEntryOnboarding(entries, devices, changed, calls, slot) ==
  IF slot = 0
  THEN UpdateLoop(Tail(entries),
                  IF Has(Head(entries).data, "uniqueid")
                  THEN devices \o from_json("lights", Head(entries).index,
                                            Head(entries).data,
                                            Len(devices) + 1).obj
                  ELSE devices,
                  changed, calls)
  ELSE UpdateNext(entries, devices, changed, calls,
                  ParseCall(slot, devices[slot], Head(entries).data))

UpdateEntry(entries, devices, changed, calls, slot) ==
  IF slot = 0 THEN UpdateLoop(Tail(entries), devices, changed, calls)
  ELSE UpdateNext(entries, devices, changed, calls,
                  ParseCall(slot, devices[slot], Head(entries).data))

UpdateLoop(entries, devices, changed, calls) ==
  IF entries = <<>>
  THEN [err |-> "ok", devices |-> devices, changed |-> changed, calls |-> calls]
  ELSE UpdateEntry(entries, devices, changed, calls,
                   SlotOf(devices, Head(entries).data))

\* bridge._execute('{kind}/{index}'): <<record>>, or <<>> when the bridge has
\* no such resource.
Fetch(lst, kind, index) ==
  IF \E i \in 1..Len(lst[kind]) : lst[kind][i].index = index
  THEN << lst[kind][CHOOSE i \in 1..Len(lst[kind]) :
                      lst[kind][i].index = index].data >>
  ELSE <<>>

\* ------------------------------------------------- the bridge's accessories
\* What the bridge reports for a colour-temperature light.
LightRecord(name, bri, ct, ctmax) ==
  [ uniqueid |-> "00:17:88:01:02:aa:bb:cc-0b",
    manufacturername |-> "Philips", productname |-> "Hue ambiance lamp",
    modelid |-> "LTW010", type |-> "Color temperature light", name |-> name,
    state |-> [ on |-> TRUE, bri |-> bri, ct |-> ct, alert |-> "none",
                reachable |-> TRUE ],
    config |-> [ archetype |-> "sultanbulb" ],
    capabilities |-> [ control |-> [ ct |-> [ min |-> 153, max |-> ctmax ] ] ] ]

LightStates ==
  { <<"lamp", 127, 370, 500>>, <<"lamp", 51, 370, 500>>,
    <<"desk", 127, 250, 454>> }

LightRecords == { LightRecord(v[1], v[2], v[3], v[4]) : v \in LightStates }

\* A light of another vendor: no accessory is built for it.
OtherLight ==
  [ uniqueid |-> "00:0b:57:ff:fe:00:00:01-01",
    manufacturername |-> "IKEA of Sweden", productname |-> "Dimmable light",
    modelid |-> "TRADFRI bulb E27", type |-> "Dimmable light", name |-> "ikea",
    state |-> [ on |-> FALSE, bri |-> 254, alert |-> "none", reachable |-> TRUE ],
    config |-> [ archetype |-> "classicbulb" ] ]

\* The bridge's built-in daylight sensor: it has no uniqueid.
Daylight ==
  [ manufacturername |-> "Philips", modelid |-> "PHDL00", type |-> "Daylight",
    name |-> "Daylight", state |-> [ daylight |-> TRUE, lastupdated |-> 0 ],
    config |-> [ on |-> TRUE, configured |-> TRUE ] ]

SensorTypes == { "ZLLPresence", "ZLLTemperature", "ZLLLightLevel", "ZLLSwitch" }

\* What the bridge reports for a sensor of the given type at time t (the
\* value of lastupdated) with configuration c (0 or 1).
SensorRecord(type, t, c) ==
  [ uniqueid |-> "00:17:88:01:02:dd:ee:ff-02",
    manufacturername |-> "Philips", productname |-> "Hue sensor",
    modelid |-> "SML001", type |-> type, name |-> "sensor",
    state |->
      CASE type = "ZLLPresence" ->
             [ presence |-> (t % 2 = 1), lastupdated |-> t ]
        [] type = "ZLLTemperature" ->
             [ temperature |-> 2100 + 50 * t, lastupdated |-> t ]
        [] type = "ZLLLightLevel" ->
             [ lightlevel |-> 12000 * t, dark |-> (t = 0), daylight |-> (t > 1),
               lastupdated |-> t ]
        [] type = "ZLLSwitch" ->
             [ buttonevent |-> 1000 + t, lastupdated |-> t ],
    config |->
      CASE type = "ZLLPresence" ->
             [ on |-> TRUE, reachable |-> (c = 0), battery |-> 100,
               sensitivity |-> 2, sensitivitymax |-> 2 + c,
               ledindication |-> FALSE ]
        [] type = "ZLLLightLevel" ->
             [ on |-> TRUE, reachable |-> (c = 0), battery |-> 100,
               tholddark |-> 16000, tholdoffset |-> 7000 ]
        [] OTHER ->
             [ on |-> TRUE, reachable |-> (c = 0), battery |-> 100 ] ]

\* A temperature sensor whose readings do not change.
QuietSensor ==
  [ SensorRecord("ZLLTemperature", 0, 0) EXCEPT
      !.uniqueid = "00:17:88:01:02:11:22:33-02", !.name = "hall" ]

\* The records the bridge may report next in place of data.
NextRecords(data) ==
  IF ~Has(data, "uniqueid") \/ ~Has(data, "type") \/ data = QuietSensor THEN {}
  ELSE IF data.type = "Color temperature light"
  THEN { r \in LightRecords : r.uniqueid = data.uniqueid } \ {data}
  ELSE IF data.type \in SensorTypes
  THEN { SensorRecord(data.type, t, c) :
           t \in {data.state.lastupdated, data.state.lastupdated + 1}
                 \cap (0..MaxTime),
           c \in {0, 1} } \ {data}
  ELSE {}

\* The keyword arguments handed to Accessory.set.
Kwargs ==
  << Empty,
     [ foo |-> Some(1) ],
     [ name |-> Some("hall") ],
     [ brightness |-> Some(Frac(2, 10)) ],
     [ brightness |-> Some(Frac(10, 10)) ],
     [ brightness |-> Some(Frac(12, 10)), name |-> Some("hall") ],
     [ colortemp |-> Some(2700) ],
     [ colortemp |-> Some(10000) ],
     [ brightness |-> Some(Frac(5, 10)), colortemp |-> Some(2700),
       on |-> Some(TRUE), alert |-> None ],
     [ brightness |-> Some(Frac(10, 10)), colortemp |-> Some(10000) ],
     [ sensitivity |-> Some(1) ],
     [ sensitivity |-> Some(3), ledindication |-> Some(TRUE) ],
     [ tholddark |-> Some(12000) ] >>

\* ------------------------------------------------------------------- state
VARIABLES
  listing,   \* what the bridge reports: [sensors, lights], each a sequence
             \* of [index, data] in the order of the JSON object
  phase,     \* "new" before Bridge.__init__, "running" after it, "failed"
             \* when it raised
  devices,   \* Bridge.devices in insertion order, each an Accessory:
             \* [kind, index, uid, handlers, data, attrs, last, streak]
  ret,       \* the last operation: its arguments (kind, slot, kwargs), the
             \* exception it raised (err), its result (flag for
             \* Accessory.update, changed, a sequence of slots, for
             \* Bridge.update), the parse calls it made and the requests
             \* it sent
  fwd,       \* the forwarder process (forwarder.py): its position (pc), the
             \* MQTT messages waiting for client.loop() (inbox), the list
             \* changed_devices, what it published, the message handled last
  conv       \* a colour temperature taken through HueColorTemperature.set
             \* and back through HueColorTemperature.get

vars == <<listing, phase, devices, ret, fwd, conv>>

NoRet ==
  [ op |-> "none", kind |-> "", slot |-> 0, kwargs |-> Empty, err |-> "ok",
    flag |-> FALSE, changed |-> <<>>, parses |-> <<>>, requests |-> <<>>,
    logged |-> FALSE ]

\* The forwarder when only the library is exercised.
NoFwd ==
  [ pc |-> "off", i |-> 0, changed |-> <<>>, inbox |-> <<>>, sent |-> <<>>,
    msg |-> <<>>, err |-> "ok" ]

\* No conversion under way.
NoConv == [ step |-> "off", kelvin |-> 0, mirek |-> 0, back |-> 0 ]

\* The bridge at start, always with accessories the library does not manage:
\* the colour-temperature light; or a motion sensor, which is a presence
\* sensor next to a temperature sensor (whose readings stay as they are); or
\* a sensor of one of the other types.
Listings ==
  { [ sensors |-> << [index |-> "1", data |-> Daylight] >>,
      lights  |-> << [index |-> "1", data |-> OtherLight],
                     [index |-> "2", data |-> LightRecord("lamp", 127, 370, 500)] >> ],
    [ sensors |-> << [index |-> "1", data |-> Daylight],
                     [index |-> "2", data |-> QuietSensor],
                     [index |-> "3", data |-> SensorRecord("ZLLPresence", 0, 0)] >>,
      lights  |-> << [index |-> "1", data |-> OtherLight] >> ] }
  \cup
  { [ sensors |-> << [index |-> "1", data |-> Daylight],
                     [index |-> "2", data |-> SensorRecord(type, 0, 0)] >>,
      lights  |-> << [index |-> "1", data |-> OtherLight] >> ] :
    type \in SensorTypes \ {"ZLLPresence"} }

Init ==
  /\ listing \in Listings
  /\ phase = "new"
  /\ devices = <<>>
  /\ ret = NoRet
  /\ fwd = NoFwd
  /\ conv = NoConv

\* The bridge's state changes: one accessory reports another record.
BridgeChange ==
  /\ \E kind \in {"sensors", "lights"} :
       \E i \in 1..Len(listing[kind]) :
         \E data \in NextRecords(listing[kind][i].data) :
           listing' = [listing EXCEPT ![kind][i].data = data]
  /\ UNCHANGED <<phase, devices, ret>>

\* bridge = hue.Bridge(host, auth); r is the result of the constructor.
BridgeInitDone(r) ==
  /\ phase' = IF r.err = "ok" THEN "running" ELSE "failed"
  /\ devices' = IF r.err = "ok" THEN r.devices ELSE <<>>
  /\ ret' = [NoRet EXCEPT !.op = "Bridge.__init__", !.err = r.err,
                          !.parses = r.calls]

BridgeInit ==
  /\ phase = "new"
  /\ BridgeInitDone(BridgeConstruct(listing))
  /\ UNCHANGED listing

\* bridge.update(kind); fetched tells whether the request for the listing
\* succeeded, r is the result of the loop.
BridgeUpdateDone(kind, r) ==
  /\ devices' = r.devices
  /\ ret' = [NoRet EXCEPT !.op = "Bridge.update", !.kind = kind, !.err = r.err,
                          !.changed = r.changed, !.parses = r.calls]

BridgeUpdate(kind, fetched) ==
  /\ phase = "running"
  /\ IF ~fetched
     THEN /\ ret' = [NoRet EXCEPT !.op = "Bridge.update", !.kind = kind,
                                  !.err = "URLError"]
          /\ UNCHANGED devices
     ELSE BridgeUpdateDone(kind, UpdateLoop(listing[kind], devices, <<>>, <<>>))
  /\ UNCHANGED <<listing, phase>>

\* device.update() on the accessory in the given slot; got is what the bridge
\* answered, c the record of the parse call.
\* Mutant of AccessoryUpdateDone: the bounds are attributes of the handler
\* classes, shared by all accessories.
AccessoryUpdateSharing(slot, c) ==
  /\ devices' = [ i \in 1..Len(devices) |->
                    IF i = slot THEN c.acc
                    ELSE [devices[i] EXCEPT !.attrs = DictUpdate(@, c.acc.attrs)] ]
  /\ ret' = [NoRet EXCEPT !.op = "Accessory.update", !.slot = slot,
                          !.err = c.rec.err, !.flag = c.rec.changed,
                          !.parses = <<c.rec>>]

AccessoryUpdateDone(slot, c) ==
  /\ devices' = [devices EXCEPT ![slot] = c.acc]
  /\ ret' = [NoRet EXCEPT !.op = "Accessory.update", !.slot = slot,
                          !.err = c.rec.err, !.flag = c.rec.changed,
                          !.parses = <<c.rec>>]

AccessoryUpdateGot(slot, fetched, got) ==
  IF ~fetched \/ got = <<>>
  THEN /\ ret' = [NoRet EXCEPT !.op = "Accessory.update", !.slot = slot,
                    !.err = IF fetched THEN "TypeError" ELSE "URLError"]
       /\ UNCHANGED devices
  ELSE AccessoryUpdateDone(slot, ParseCall(slot, devices[slot], Head(got)))

AccessoryUpdate(slot, fetched) ==
  /\ phase = "running"
  /\ slot \in 1..Len(devices)
  /\ AccessoryUpdateGot(slot, fetched,
                        Fetch(listing, devices[slot].kind, devices[slot].index))
  /\ UNCHANGED <<listing, phase>>

\* device.set(**kwargs) on the accessory in the given slot; the transport
\* fails at the fail-th request, if there is one; r is the result.
AccessorySetDone(slot, kwargs, r) ==
  ret' = [NoRet EXCEPT !.op = "Accessory.set", !.slot = slot, !.kwargs = kwargs,
                       !.err = r.err, !.requests = r.requests,
                       !.logged = r.logged]

\* Mutant of AccessorySetCall: the name that was set is stored in the
\* snapshot at once.
AccessorySetStoring(slot, kwargs, fail) ==
  /\ phase = "running"
  /\ slot \in 1..Len(devices)
  /\ AccessorySetDone(slot, kwargs, AccessorySet(devices[slot], kwargs, fail))
  /\ devices' = [devices EXCEPT ![slot].data =
                   IF IsNone(Kw(kwargs, "name")) THEN @
                   ELSE DictUpdate(@, [name |-> Val(kwargs.name)])]
  /\ UNCHANGED <<listing, phase>>

AccessorySetCall(slot, kwargs, fail) ==
  /\ phase = "running"
  /\ slot \in 1..Len(devices)
  /\ AccessorySetDone(slot, kwargs, AccessorySet(devices[slot], kwargs, fail))
  /\ UNCHANGED <<listing, phase, devices>>

\* The library exercised directly: any call at any time.
Next ==
  \/ BridgeChange /\ UNCHANGED <<fwd, conv>>
  \/ BridgeInit /\ UNCHANGED <<fwd, conv>>
  \/ \E kind \in {"sensors", "lights"}, fetched \in BOOLEAN :
       BridgeUpdate(kind, fetched) /\ UNCHANGED <<fwd, conv>>
  \/ \E slot \in 1..Len(devices), fetched \in BOOLEAN :
       AccessoryUpdate(slot, fetched) /\ UNCHANGED <<fwd, conv>>
  \/ \E slot \in 1..Len(devices), i \in 1..Len(Kwargs), fail \in 0..2 :
       AccessorySetCall(slot, Kwargs[i], fail) /\ UNCHANGED <<fwd, conv>>

Spec == Init /\ [][Next]_vars

\* ------------------------------------------- a bridge that misbehaves
\* The object without the key k.
Drop(obj, k) == [ x \in DOMAIN obj \ {k} |-> obj[x] ]

\* A second colour-temperature light, with a narrower range; its state stays
\* as it is.
NewLamp ==
  [ LightRecord("desk", 127, 250, 454) EXCEPT
      !.uniqueid = "00:17:88:01:02:44:55:66-0b", !.name = "shelf" ]

\* Accessories of which the bridge reports no manufacturer, or no type.
NoVendor ==
  [ uniqueid |-> "00:15:8d:00:01:00:00:01-01", type |-> "CLIPGenericStatus",
    name |-> "virtual", state |-> [ status |-> 0, lastupdated |-> 0 ],
    config |-> [ on |-> TRUE, reachable |-> TRUE ] ]

NoType == DictUpdate(Drop(NoVendor, "type"), [manufacturername |-> "Philips"])

\* The records of the colour-temperature light and of the presence sensor
\* while the bridge misbehaves: their readings stay as they are.
Intact == { LightRecord("lamp", 127, 370, 500), SensorRecord("ZLLPresence", 0, 0) }

\* The records the bridge may report in place of data: an intact record with
\* a key missing, and the intact record again.
Faults(data) ==
  IF data \in Intact
  THEN IF data.type = "Color temperature light"
       THEN { Drop(data, "name"),
              [data EXCEPT !.state = Drop(@, "ct")],
              [data EXCEPT !.capabilities.control.ct = Drop(@, "max")] }
       ELSE { Drop(data, "name"),
              [data EXCEPT !.config = Drop(@, "battery")],
              [data EXCEPT !.state = Drop(@, "presence")] }
  ELSE { r \in Intact : Has(data, "uniqueid") /\ r.uniqueid = data.uniqueid }

FaultListings ==
  { [ sensors |-> << [index |-> "1", data |-> Daylight] >>,
      lights  |-> << [index |-> "1", data |-> OtherLight],
                     [index |-> "2", data |-> LightRecord("lamp", 127, 370, 500)] >>
                  \o extra ] :
    extra \in { <<>>, << [index |-> "3", data |-> NewLamp] >> } }
  \cup
  { [ sensors |-> << [index |-> "1", data |-> Daylight],
                     [index |-> "2", data |-> other] >>,
      lights  |-> << [index |-> "1", data |-> OtherLight] >> ] :
    other \in { SensorRecord("ZLLPresence", 0, 0), NoVendor, NoType } }

InitFaults ==
  /\ listing \in FaultListings
  /\ phase = "new"
  /\ devices = <<>>
  /\ ret = NoRet
  /\ fwd = NoFwd
  /\ conv = NoConv

\* The bridge reports an accessory with a key missing, or whole again.
BridgeFault ==
  /\ \E kind \in {"sensors", "lights"} :
       \E i \in 1..Len(listing[kind]) :
         \E data \in Faults(listing[kind][i].data) :
           listing' = [listing EXCEPT ![kind][i].data = data]
  /\ UNCHANGED <<phase, devices, ret>>

\* A light is paired with the bridge after it was absent.
BridgePair ==
  /\ \A i \in 1..Len(listing.lights) : listing.lights[i].index # "3"
  /\ listing' = [listing EXCEPT
                   !.lights = Append(@, [index |-> "3", data |-> NewLamp])]
  /\ UNCHANGED <<phase, devices, ret>>

\* An accessory the library may manage is removed from the bridge.
BridgeUnpair ==
  /\ \E kind \in {"sensors", "lights"} :
       \E i \in 1..Len(listing[kind]) :
         /\ listing[kind][i].index # "1"
         /\ listing' = [listing EXCEPT
                          ![kind] = SubSeq(@, 1, i - 1) \o SubSeq(@, i + 1, Len(@))]
  /\ UNCHANGED <<phase, devices, ret>>

\* The keyword arguments handed to Accessory.set while the bridge misbehaves.
FaultKwargs == << Kwargs[3] >>

NextFaults ==
  \/ BridgeFault /\ UNCHANGED <<fwd, conv>>
  \/ BridgePair /\ UNCHANGED <<fwd, conv>>
  \/ BridgeUnpair /\ UNCHANGED <<fwd, conv>>
  \/ BridgeInit /\ UNCHANGED <<fwd, conv>>
  \/ \E kind \in {"sensors", "lights"}, fetched \in BOOLEAN :
       BridgeUpdate(kind, fetched) /\ UNCHANGED <<fwd, conv>>
  \/ \E slot \in 1..Len(devices), fetched \in BOOLEAN :
       AccessoryUpdate(slot, fetched) /\ UNCHANGED <<fwd, conv>>
  \/ \E slot \in 1..Len(devices), i \in 1..Len(FaultKwargs), fail \in 0..1 :
       AccessorySetCall(slot, FaultKwargs[i], fail) /\ UNCHANGED <<fwd, conv>>

SpecFaults == InitFaults /\ [][NextFaults]_vars

\* ---------------------------------------------------------- forwarder.py
\* An MQTT message on the topic prefix/dtype/uid/action with a JSON object as
\* its payload.
Message(dtype, uid, action, payload) ==
  [ dtype |-> dtype, uid |-> uid, action |-> action, payload |-> payload ]

\* The messages that reach the forwarder through its two subscriptions.
Messages ==
  { Message("lights", LightRecord("lamp", 127, 370, 500).uniqueid, "set",
            [ brightness |-> Some(Frac(2, 10)) ]),
    Message("lights", LightRecord("lamp", 127, 370, 500).uniqueid, "update", Empty),
    Message("sensors", SensorRecord("ZLLPresence", 0, 0).uniqueid, "update", Empty),
    Message("lights", "00:17:88:01:02:00:00:00-0b", "set",
            [ brightness |-> Some(Frac(2, 10)) ]) }

\* client.publish(prefix/kind/uid, json.dumps(data), 0, True)
Publication(kind, uid, data) == [ kind |-> kind, uid |-> uid, data |-> data ]

\* An exception that nothing catches ends the process.
FwdDead(e) == [fwd EXCEPT !.pc = "dead", !.err = e]

InitFwd ==
  /\ listing \in { l \in Listings : Len(l.lights) = 2 \/ Len(l.sensors) = 3 }
  /\ phase = "new"
  /\ devices = <<>>
  /\ ret = NoRet
  /\ fwd = [NoFwd EXCEPT !.pc = "start"]
  /\ conv = NoConv

\* The broker delivers a message: it waits at the socket for client.loop().
MqttArrive ==
  /\ fwd.pc \notin {"off", "dead"}
  /\ Len(fwd.inbox) < MaxInbox
  /\ \E m \in Messages : fwd' = [fwd EXCEPT !.inbox = Append(@, m)]
  /\ UNCHANGED <<listing, phase, devices, ret>>

\* bridge = hue.Bridge(host, auth)
FwdStart ==
  /\ fwd.pc = "start"
  /\ BridgeInit
  /\ fwd' = IF ret'.err = "ok" THEN [fwd EXCEPT !.pc = "initial", !.i = 1]
            ELSE FwdDead(ret'.err)

\* One round of the loop over the devices before the main loop:
\* device.update() and the publication of device.data.
FwdInitialPublish ==
  /\ fwd.pc = "initial"
  /\ fwd.i <= Len(devices)
  /\ \E fetched \in BOOLEAN : AccessoryUpdate(fwd.i, fetched)
  /\ fwd' = IF ret'.err = "ok"
            THEN [fwd EXCEPT !.i = @ + 1,
                    !.sent = Append(@, Publication(devices[fwd.i].kind,
                                                   devices[fwd.i].uid,
                                                   devices'[fwd.i].data))]
            ELSE FwdDead(ret'.err)

\* The end of that loop, the two subscriptions and the first time.sleep.
FwdSubscribe ==
  /\ fwd.pc = "initial"
  /\ fwd.i > Len(devices)
  /\ fwd' = [fwd EXCEPT !.pc = "poll_sensors", !.i = 0, !.sent = <<>>]
  /\ UNCHANGED <<listing, phase, devices, ret>>

\* bridge.update('sensors'), the left operand of the sum.
FwdPollSensors ==
  /\ fwd.pc = "poll_sensors"
  /\ \E fetched \in BOOLEAN : BridgeUpdate("sensors", fetched)
  /\ fwd' = IF ret'.err = "ok"
            THEN [fwd EXCEPT !.pc = "poll_lights", !.changed = ret'.changed]
            ELSE FwdDead(ret'.err)

\* bridge.update('lights') and the assignment of the sum to changed_devices.
FwdPollLights ==
  /\ fwd.pc = "poll_lights"
  /\ \E fetched \in BOOLEAN : BridgeUpdate("lights", fetched)
  /\ fwd' = IF ret'.err = "ok"
            THEN [fwd EXCEPT !.changed = @ \o ret'.changed, !.i = 1,
                    !.pc = IF fwd.changed \o ret'.changed = <<>>
                           THEN "loop" ELSE "publish"]
            ELSE [FwdDead(ret'.err) EXCEPT !.i = 1]

\* Mutant of FwdPublish: the loop is left after the first publication.
FwdPublishOnce ==
  /\ fwd.pc = "publish"
  /\ fwd' = [fwd EXCEPT
               !.sent = Append(@, Publication(devices[fwd.changed[fwd.i]].kind,
                                              devices[fwd.changed[fwd.i]].uid,
                                              devices[fwd.changed[fwd.i]].data)),
               !.i = @ + 1,
               !.pc = "loop"]
  /\ UNCHANGED <<listing, phase, devices, ret>>

\* One round of the loop over changed_devices: the publication of device.data.
FwdPublish ==
  /\ fwd.pc = "publish"
  /\ fwd' = [fwd EXCEPT
               !.sent = Append(@, Publication(devices[fwd.changed[fwd.i]].kind,
                                              devices[fwd.changed[fwd.i]].uid,
                                              devices[fwd.changed[fwd.i]].data)),
               !.i = @ + 1,
               !.pc = IF fwd.i = Len(fwd.changed) THEN "loop" ELSE "publish"]
  /\ UNCHANGED <<listing, phase, devices, ret>>

\* Mutant of CanDispatch: the network loop runs in a thread of its own
\* (client.loop_start()), so a message is handled whenever it arrives.
CanDispatchAnytime == fwd.pc \in {"poll_sensors", "poll_lights", "publish", "loop"}

\* on_message runs only inside client.loop(), the last statement of the main
\* loop.
CanDispatch == fwd.pc = "loop"

\* on_message for a message whose uid no device has: by_uid returns None and
\* the attribute access on it raises.
OnMessageNobody(m) ==
  /\ ret' = [NoRet EXCEPT !.op = "Bridge.by_uid"]
  /\ fwd' = [FwdDead("AttributeError") EXCEPT !.inbox = Tail(@), !.msg = <<m>>]
  /\ UNCHANGED <<listing, phase, devices>>

\* on_message for the action set: device.set(**payload).
OnMessageSet(m, slot) ==
  /\ \E fail \in 0..1 : AccessorySetCall(slot, m.payload, fail)
  /\ fwd' = IF ret'.err = "ok"
            THEN [fwd EXCEPT !.pc = "looped", !.inbox = Tail(@), !.msg = <<m>>]
            ELSE [FwdDead(ret'.err) EXCEPT !.inbox = Tail(@), !.msg = <<m>>]

\* on_message for the action update: device.update() and the publication of
\* device.data on the topic of the message without its last level.
OnMessageUpdate(m, slot) ==
  /\ \E fetched \in BOOLEAN : AccessoryUpdate(slot, fetched)
  /\ fwd' = IF ret'.err = "ok"
            THEN [fwd EXCEPT !.pc = "looped", !.inbox = Tail(@), !.msg = <<m>>,
                    !.sent = Append(@, Publication(m.dtype, m.uid,
                                                   devices'[slot].data))]
            ELSE [FwdDead(ret'.err) EXCEPT !.inbox = Tail(@), !.msg = <<m>>]

\* client.loop() reads one packet: it hands the message that waited longest
\* to on_message.
OnMessage(m, slot) ==
  IF slot = 0 THEN OnMessageNobody(m)
  ELSE IF m.action = "set" THEN OnMessageSet(m, slot)
  ELSE OnMessageUpdate(m, slot)

FwdMessage ==
  /\ CanDispatch
  /\ fwd.inbox # <<>>
  /\ OnMessage(Head(fwd.inbox), by_uid(devices, Head(fwd.inbox).uid))

\* The bridge's state changes, at any time while the forwarder runs.
FwdBridgeChange ==
  /\ fwd.pc \notin {"off", "dead"}
  /\ BridgeChange
  /\ UNCHANGED fwd

\* client.loop() returns and the next iteration begins with time.sleep.
FwdLoopReturn ==
  /\ fwd.pc \in {"loop", "looped"}
  /\ fwd' = [fwd EXCEPT !.pc = "poll_sensors", !.i = 0, !.changed = <<>>,
                        !.sent = <<>>, !.msg = <<>>]
  /\ UNCHANGED <<listing, phase, devices, ret>>

NextFwd ==
  \/ FwdBridgeChange /\ UNCHANGED conv
  \/ MqttArrive /\ UNCHANGED conv
  \/ FwdStart /\ UNCHANGED conv
  \/ FwdInitialPublish /\ UNCHANGED conv
  \/ FwdSubscribe /\ UNCHANGED conv
  \/ FwdPollSensors /\ UNCHANGED conv
  \/ FwdPollLights /\ UNCHANGED conv
  \/ FwdPublish /\ UNCHANGED conv
  \/ FwdMessage /\ UNCHANGED conv
  \/ FwdLoopReturn /\ UNCHANGED conv

SpecFwd == InitFwd /\ [][NextFwd]_vars

\* ------------------------------------- the colour temperature conversions
\* A colour-temperature light as the bridge reports it with the wire value ct.
CtRecord(ct) == LightRecord("lamp", 127, ct, 500)

\* The attributes of a HueColorTemperature instance whose get has run.
CtAttrs == HandlerGetAttrs("HueColorTemperature", CtRecord(370), Empty)

InitConv ==
  /\ listing = [ sensors |-> <<>>,
                 lights  |-> << [index |-> "1", data |-> CtRecord(370)] >> ]
  /\ phase = "new"
  /\ devices = <<>>
  /\ ret = NoRet
  /\ fwd = NoFwd
  /\ \E k \in KelvinMin..KelvinMax :
       conv = [ step |-> "kelvin", kelvin |-> k, mirek |-> 0, back |-> 0 ]

\* HueColorTemperature.set(colortemp=kelvin): the wire value it returns.
ConvSetDone(r) ==
  conv' = [conv EXCEPT !.step = IF r.err = "ok" THEN "wire" ELSE r.err,
                       !.mirek = IF r.err = "ok" THEN Val(r.patch[1][2].ct) ELSE 0]

ConvSet ==
  /\ conv.step = "kelvin"
  /\ ConvSetDone(HandlerSet("HueColorTemperature",
                            [colortemp |-> Some(conv.kelvin)], CtAttrs))
  /\ UNCHANGED <<listing, phase, devices, ret, fwd>>

\* HueColorTemperature.get of the record that carries the wire value.
ConvGet ==
  /\ conv.step = "wire"
  /\ conv' = [conv EXCEPT !.step = "done",
                          !.back = HandlerGet("HueColorTemperature",
                                              CtRecord(conv.mirek)).colortemp]
  /\ UNCHANGED <<listing, phase, devices, ret, fwd>>

NextConv == ConvSet \/ ConvGet

SpecConv == InitConv /\ [][NextConv]_vars

\* ================================================================= claims
\* The parse calls of the last operation.
ParseCalls == { ret.parses[i] : i \in 1..Len(ret.parses) }

\* data has every key that the get of every handler reads.
WellFormed(handlers, data) ==
  \A i \in 1..Len(handlers) : GetNeeds(handlers[i], data)

\* The aggregation of the gets of all handlers over data, a later handler
\* winning on a shared key.
RECURSIVE Aggregate(_, _)
Aggregate(handlers, data) ==
  IF handlers = <<>> THEN Empty
  ELSE DictUpdate(HandlerGet(Head(handlers), data),
                  Aggregate(Tail(handlers), data))

\* The keyword arguments some handler of the accessory owns.
Owned(acc) == UNION { SetParameters(acc.handlers[i]) : i \in 1..Len(acc.handlers) }

HasHandler(acc, h) == \E i \in 1..Len(acc.handlers) : acc.handlers[i] = h

\* C1 (as claimed): a parse of the record that the accessory's previous parse
\* was given returns changed = False and leaves the snapshot as it was.
C1_ParseIdempotent ==
  \A p \in ParseCalls :
    (p.err = "ok" /\ p.last = <<p.data>>)
      => (~p.changed /\ p.after = p.before)

\* C2 (as claimed): the snapshot of every accessory, from its construction
\* on, is the aggregation of the gets of all its handlers over the record of
\* its most recent parse.
C2_CompleteAggregation ==
  \A i \in 1..Len(devices) :
    (devices[i].last # <<>> /\ WellFormed(devices[i].handlers, devices[i].last[1]))
      => devices[i].data = Aggregate(devices[i].handlers, devices[i].last[1])

\* C3 (as claimed): a set whose keyword arguments are all owned by no handler
\* of the accessory raises nothing and sends no request.
C3_UnrelatedFieldsNoWrite ==
  (ret.op = "Accessory.set" /\ DOMAIN ret.kwargs \cap Owned(devices[ret.slot]) = {})
    => (ret.err = "ok" /\ ret.requests = <<>>)

\* C4 (as claimed): a set of colortemp on an accessory with the colour
\* temperature handler, or of sensitivity on one with the presence handler,
\* finds the bounds of the record of the accessory's most recent parse in the
\* handler's attributes and does not fail for their absence.
C4_BoundsCaptured ==
  ret.op = "Accessory.set" =>
    LET acc == devices[ret.slot]
    IN  /\ (HasHandler(acc, "HueColorTemperature")
            /\ ~IsNone(Kw(ret.kwargs, "colortemp")))
           => /\ ret.err # "AttributeError"
              /\ Has(acc.attrs, "_ct_min") /\ Has(acc.attrs, "_ct_max")
              /\ acc.attrs._ct_min = acc.last[1].capabilities.control.ct.min
              /\ acc.attrs._ct_max = acc.last[1].capabilities.control.ct.max
        /\ (HasHandler(acc, "HuePresenceSensor")
            /\ ~IsNone(Kw(ret.kwargs, "sensitivity")))
           => /\ ret.err # "AttributeError"
              /\ Has(acc.attrs, "_sensitivity_max")
              /\ acc.attrs._sensitivity_max = acc.last[1].config.sensitivitymax

\* C5 (as claimed): Bridge.update over a listing in which every accessory's
\* record is the one of the accessory's previous parse returns the empty list.
C5_UnchangedListingNoChange ==
  (ret.op = "Bridge.update" /\ ret.err = "ok"
   /\ \A p \in ParseCalls : p.last = <<p.data>>)
    => ret.changed = <<>>

\* C6: a parse of a well-formed record returns True exactly when the
\* aggregation of the gets of all handlers has a key that the stored map lacks
\* or maps to another value, and a parse that returns False leaves the stored
\* map as it was.
C6_ChangeFlag ==
  \A p \in ParseCalls :
    (p.err = "ok" /\ WellFormed(p.handlers, p.data))
      => /\ p.changed <=>
              (\E k \in DOMAIN Aggregate(p.handlers, p.data) :
                 \/ ~Has(p.before, k)
                 \/ p.before[k] # Aggregate(p.handlers, p.data)[k])
         /\ ~p.changed => p.after = p.before

\* C6 witness: Bridge.update parsed a record into a snapshot that had every
\* aggregated key and reported the accessory changed, and parsed another
\* record without a change.
C6_Witness ==
  /\ ret.op = "Bridge.update"
  /\ \E p \in ParseCalls :
       /\ p.changed
       /\ DOMAIN p.before = DOMAIN Aggregate(p.handlers, p.data)
  /\ \E p \in ParseCalls : p.err = "ok" /\ ~p.changed

\* C7: every request of a set has a payload that is not empty and has no
\* None in it, goes to the accessory's own kind and index, and no two requests
\* of one set go to the same block.
C7_WritesWellFormed ==
  ret.op = "Accessory.set" =>
    /\ \A i \in 1..Len(ret.requests) :
         /\ DOMAIN ret.requests[i].data # {}
         /\ \A k \in DOMAIN ret.requests[i].data : ~IsNone(ret.requests[i].data[k])
         /\ ret.requests[i].kind = devices[ret.slot].kind
         /\ ret.requests[i].index = devices[ret.slot].index
    /\ \A i, j \in 1..Len(ret.requests) :
         ret.requests[i].block = ret.requests[j].block => i = j

\* C7 witness: a set that sent two requests, one of them for a block of which
\* some entries were None.
C7_Witness ==
  /\ ret.op = "Accessory.set"
  /\ Len(ret.requests) = 2
  /\ \E i \in 1..2 :
       ret.requests[i].block = "state" /\ DOMAIN ret.requests[i].data = {"bri"}

\* A set with the brightness as its only keyword argument on an accessory
\* with the colour temperature handler.
BrightnessOnly ==
  /\ ret.op = "Accessory.set"
  /\ HasHandler(devices[ret.slot], "HueColorTemperature")
  /\ DOMAIN ret.kwargs = {"brightness"}
  /\ ~IsNone(ret.kwargs.brightness)

\* The single request to block "state" with the payload {bri: n}.
OneStateWrite(n) ==
  /\ Len(ret.requests) = 1
  /\ ret.requests[1].block = "state"
  /\ ret.requests[1].data = [bri |-> Some(n)]

\* C8 (as claimed): a brightness-only set on a colour-temperature light sends
\* exactly one request, to block "state", with bri as its only key, and for
\* the brightness 0.2 the payload is {bri: 51}.
C8_BrightnessOnly_51 ==
  BrightnessOnly =>
    /\ Len(ret.requests) = 1
    /\ ret.requests[1].block = "state"
    /\ DOMAIN ret.requests[1].data = {"bri"}
    /\ ret.kwargs.brightness = Some(Frac(2, 10)) => OneStateWrite(51)

\* C8 (amended): as claimed, but for the brightness 0.2 the payload is
\* {bri: 50}, 0.2 * 254 = 50.8 being truncated (and {bri: 254} for 1.0).
C8_BrightnessOnly_50 ==
  BrightnessOnly =>
    /\ Len(ret.requests) = 1
    /\ ret.requests[1].block = "state"
    /\ DOMAIN ret.requests[1].data = {"bri"}
    /\ ret.kwargs.brightness = Some(Frac(2, 10)) => OneStateWrite(50)
    /\ ret.kwargs.brightness = Some(Frac(10, 10)) => OneStateWrite(254)

\* C8 witness: the set of brightness 0.2 alone on the light went through.
C8_Witness ==
  /\ BrightnessOnly
  /\ ret.kwargs.brightness = Some(Frac(2, 10))
  /\ ret.err = "ok"
  /\ devices[ret.slot].kind = "lights"

\* C10: a step that is a set leaves the snapshot of every accessory as it was.
C10_SetKeepsSnapshot ==
  [][ ret'.op = "Accessory.set"
        => /\ Len(devices') = Len(devices)
           /\ \A i \in 1..Len(devices) : devices'[i].data = devices[i].data ]_vars

\* C10 witness: a set on an accessory with a snapshot sent a request that
\* failed.
C10_Witness ==
  /\ ret.op = "Accessory.set"
  /\ ret.err = "URLError"
  /\ Len(ret.requests) > 0
  /\ DOMAIN devices[ret.slot].data # {}

\* The attributes the handlers hold once the get of each has run on data.
RECURSIVE CapturedBounds(_, _, _)
CapturedBounds(handlers, data, attrs) ==
  IF handlers = <<>> THEN attrs
  ELSE CapturedBounds(Tail(handlers), data,
                      HandlerGetAttrs(Head(handlers), data, attrs))

\* C18: once as many parses in a row as the accessory has handlers were given
\* the same well-formed record, the snapshot is the aggregation of the gets of
\* all handlers over that record, the bounds are those of that record, and a
\* further parse of the record reports no change.
C18_Convergence ==
  /\ \A i \in 1..Len(devices) :
       (devices[i].streak = Len(devices[i].handlers)
        /\ WellFormed(devices[i].handlers, devices[i].last[1]))
         => /\ devices[i].data = Aggregate(devices[i].handlers, devices[i].last[1])
            /\ devices[i].attrs =
                 CapturedBounds(devices[i].handlers, devices[i].last[1], Empty)
  /\ \A p \in ParseCalls :
       (p.err = "ok" /\ p.streak = Len(p.handlers) /\ p.last = <<p.data>>
        /\ WellFormed(p.handlers, p.data))
         => ~p.changed

\* C18 witness: one Bridge.update gave an accessory with three handlers its
\* third parse in a row of a record, which still changed the snapshot, and
\* gave another one a further parse of its record, which changed nothing.
C18_Witness ==
  /\ ret.op = "Bridge.update"
  /\ \E p \in ParseCalls :
       /\ Len(p.handlers) = 3 /\ p.streak = 2 /\ p.last = <<p.data>>
       /\ p.changed
       /\ devices[p.slot].attrs # Empty
  /\ \E p \in ParseCalls :
       /\ p.streak = Len(p.handlers) /\ p.last = <<p.data>> /\ ~p.changed

\* The request of the last operation, a set, to the given block carries the
\* given value in the given field.
Writes(block, field, value) ==
  \E i \in 1..Len(ret.requests) :
    /\ ret.requests[i].block = block
    /\ Has(ret.requests[i].data, field)
    /\ ret.requests[i].data[field] = Some(value)

\* C12 (as claimed): a set, with a transport that works, of a brightness
\* outside 0..1, of a colour temperature whose mirek is outside the cached
\* range, or of a sensitivity above the cached maximum, on an accessory whose
\* handler holds the bounds, raises nothing and sends the converted value as
\* it is.
C12_PermissiveValidation ==
  (ret.op = "Accessory.set" /\ ret.err # "URLError") =>
    LET acc == devices[ret.slot]
        b == Kw(ret.kwargs, "brightness")
        c == Kw(ret.kwargs, "colortemp")
        s == Kw(ret.kwargs, "sensitivity")
    IN  /\ (HasHandler(acc, "HueLight") /\ ~IsNone(b)
            /\ (Val(b).num < 0 \/ Val(b).num > Val(b).den))
           => /\ ret.err = "ok"
              /\ Writes("state", "bri", Trunc(Val(b).num * BriMax, Val(b).den))
        /\ (HasHandler(acc, "HueColorTemperature") /\ ~IsNone(c)
            /\ Has(acc.attrs, "_ct_min") /\ Has(acc.attrs, "_ct_max")
            /\ (Trunc(Million, Val(c)) < acc.attrs._ct_min
                \/ Trunc(Million, Val(c)) > acc.attrs._ct_max))
           => /\ ret.err = "ok"
              /\ Writes("state", "ct", Trunc(Million, Val(c)))
        /\ (HasHandler(acc, "HuePresenceSensor") /\ ~IsNone(s)
            /\ Has(acc.attrs, "_sensitivity_max")
            /\ Val(s) > acc.attrs._sensitivity_max)
           => /\ ret.err = "ok"
              /\ Writes("config", "sensitivity", Val(s))

\* A conversion there and back of a Kelvin value whose mirek the light has.
ConvDone ==
  /\ conv.step = "done"
  /\ conv.mirek >= CtAttrs._ct_min /\ conv.mirek <= CtAttrs._ct_max

\* C16 (as claimed): the Kelvin value that comes back is within 1 of the one
\* that went in.
C16_RoundTripWithin1 ==
  ConvDone => /\ conv.back - conv.kelvin <= 1
              /\ conv.kelvin - conv.back <= 1

\* C16 (amended): the Kelvin value that comes back is not below the one that
\* went in and at most 41 above it.
C16_RoundTripWithin41 ==
  ConvDone => /\ conv.back >= conv.kelvin
              /\ conv.back - conv.kelvin <= 41

\* C16 witness: a conversion there and back that ended 41 above.
C16_Witness ==
  ConvDone /\ conv.back = conv.kelvin + 41

\* C11: a parse that a missing key ends leaves the snapshot as it was, and
\* the operation that made the call ends with the same exception (the
\* constructor of Bridge then builds no Bridge).
C11_FailedParseAtomic ==
  \A p \in ParseCalls :
    p.err # "ok"
      => /\ p.after = p.before
         /\ ret.err = p.err
         /\ ret.op = "Bridge.__init__" => phase = "failed"
         /\ ret.op # "Bridge.__init__" => devices[p.slot].data = p.before

\* C11 witness: Bridge.update parsed a record whose first two handlers found
\* their keys and whose third did not, into a snapshot that was not empty.
C11_Witness ==
  /\ ret.op = "Bridge.update"
  /\ \E p \in ParseCalls :
       /\ p.err = "KeyError" /\ p.before # Empty
       /\ GetNeeds(p.handlers[1], p.data) /\ GetNeeds(p.handlers[2], p.data)
       /\ ~GetNeeds(p.handlers[3], p.data)

\* The Identity predicate: a Philips accessory of a supported type.
Identity(data) ==
  /\ Has(data, "manufacturername") /\ data.manufacturername = "Philips"
  /\ Has(data, "type") /\ data.type \in SupportedTypes

\* The entries of both listings, sensors first.
Entries == listing.sensors \o listing.lights

\* The entries an accessory is built for: those with an id that satisfy the
\* Identity predicate.
Managed ==
  SelectSeq(Entries, LAMBDA e : Has(e.data, "uniqueid") /\ Identity(e.data))

\* C13 (as claimed): when every listed record that satisfies the Identity
\* predicate has the keys its handlers read, the constructor of Bridge raises
\* nothing and registers exactly the records that have an id and satisfy the
\* predicate, whatever the other records hold or lack.
C13_UnsupportedSkipped ==
  (ret.op = "Bridge.__init__"
   /\ \A i \in 1..Len(Managed) :
        /\ Has(Managed[i].data, "config")
        /\ WellFormed(SelectSeq(all_handlers,
                                LAMBDA h : is_applicable(h, Managed[i].data)),
                      Managed[i].data))
    => /\ ret.err = "ok"
       /\ phase = "running"
       /\ Len(devices) = Len(Managed)
       /\ \A i \in 1..Len(Managed) : devices[i].uid = Managed[i].data.uniqueid

\* C14: once the Bridge is built, no step changes the number of accessories
\* or the uid, kind, index or handlers of any of them.
C14_RegistryFixed ==
  [][ phase = "running"
        => /\ phase' = "running"
           /\ Len(devices') = Len(devices)
           /\ \A i \in 1..Len(devices) :
                /\ devices'[i].uid = devices[i].uid
                /\ devices'[i].kind = devices[i].kind
                /\ devices'[i].index = devices[i].index
                /\ devices'[i].handlers = devices[i].handlers ]_vars

\* C14 witness: Bridge.update went over a listing of the lights that has a
\* supported light of no known accessory and lacks the light of a known one,
\* and returned.
C14_Witness ==
  /\ ret.op = "Bridge.update" /\ ret.kind = "lights" /\ ret.err = "ok"
  /\ \E i \in 1..Len(listing.lights) :
       /\ Identity(listing.lights[i].data)
       /\ SlotOf(devices, listing.lights[i].data) = 0
  /\ \E j \in 1..Len(devices) :
       /\ devices[j].kind = "lights"
       /\ \A i \in 1..Len(listing.lights) :
            listing.lights[i].data.uniqueid # devices[j].uid

\* C15: a step leaves the bounds and the snapshot of every accessory it made
\* no parse call for as they were.
C15_BoundIsolation ==
  [][ \A i \in 1..Len(devices) :
        (phase = "running"
         /\ ret'.op \in {"Bridge.update", "Accessory.update"}
         /\ \A k \in 1..Len(ret'.parses) : ret'.parses[k].slot # i)
          => /\ devices'[i].attrs = devices[i].attrs
             /\ devices'[i].data = devices[i].data ]_vars

\* C15 witness: Accessory.update refreshed one of two colour-temperature
\* lights whose cached ranges differ.
C15_Witness ==
  /\ ret.op = "Accessory.update" /\ ret.err = "ok"
  /\ \E j \in 1..Len(devices) :
       /\ j # ret.slot
       /\ Has(devices[j].attrs, "_ct_max")
       /\ Has(devices[ret.slot].attrs, "_ct_max")
       /\ devices[j].attrs._ct_max # devices[ret.slot].attrs._ct_max

\* The changed device in place k of changed_devices was published in this
\* iteration, on the topic of its kind and uid, with the snapshot it has.
Published(k) ==
  \E j \in 1..Len(fwd.sent) :
    fwd.sent[j] = Publication(devices[fwd.changed[k]].kind,
                              devices[fwd.changed[k]].uid,
                              devices[fwd.changed[k]].data)

\* C17: a step in which on_message handles a message starts where
\* client.loop() is called: both polls of the iteration have returned and
\* every device they reported has been published.
C17_NoInterleaving ==
  [][ Len(fwd'.inbox) < Len(fwd.inbox)
        => /\ fwd.pc = "loop"
           /\ fwd.i = Len(fwd.changed) + 1
           /\ \A k \in 1..Len(fwd.changed) : Published(k) ]_vars

\* C17 witness: on_message handled a set for a known device in an iteration
\* whose polls had reported a device.
C17_Witness ==
  /\ fwd.pc = "looped"
  /\ fwd.msg # <<>> /\ fwd.msg[1].action = "set"
  /\ ret.op = "Accessory.set" /\ Len(ret.requests) = 1
  /\ fwd.changed # <<>>

C20_UnknownDeviceNoOp ==
  (fwd.msg # <<>> /\ by_uid(devices, fwd.msg[1].uid) = 0)
    => /\ fwd.err = "ok"
       /\ fwd.pc # "dead"
       /\ ret.requests = <<>>
       /\ \A j \in 1..Len(fwd.sent) : fwd.sent[j].uid # fwd.msg[1].uid

====
